---- MODULE Spec2Model ----
(***************************************************************************)
(* Offline mutation queue and sync engine of the rep dashboard:            *)
(*   services/offline.ts  (local persistent store, mutation queue)         *)
(*   services/sync.ts     (syncDown, syncUp, processMutation,              *)
(*                         withOfflineFallback, network listeners)         *)
(* Every `await` of the source is one step of the calling task, so a       *)
(* store function is a read step (getItem) followed by a write step        *)
(* (setItem).                                                              *)
(***************************************************************************)
EXTENDS Integers, Sequences, FiniteSets, TLC

\* ---------------------------------------------------------------- bounds
MaxQueue == 2       \* longest queue the UI builds up by enqueueing
MaxRows == 1        \* most rows one remote select returns

\* ------------------------------------------------------------ vocabulary
Procs == {"p1", "p2"}            \* asynchronous tasks of the event loop
Undefined == "undefined"         \* JS undefined / null
Void == [type |-> "undefined"]   \* what a Promise<void> resolves with
Number(n) == [type |-> "number", value |-> n]
Null == [id |-> 0]               \* dequeueMutation's null

\* mutations handed to enqueueMutation (table, operation, payload, key)
Mutations ==
  { [table |-> "clients", operation |-> "insert", payload |-> "c1", key |-> Undefined],
    [table |-> "visits", operation |-> "update", payload |-> "notes", key |-> "v1"],
    [table |-> "visits", operation |-> "update", payload |-> "notes", key |-> Undefined],
    [table |-> "client_products", operation |-> "upsert", payload |-> "cp1", key |-> Undefined],
    [table |-> "client_products", operation |-> "delete", payload |-> "none", key |-> "cp1"],
    [table |-> "client_products", operation |-> "delete", payload |-> "none", key |-> Undefined] }

\* rows whose presence in the remote store is tracked (the row a queued insert creates)
RemoteRowIds == {"c1"}

\* the six collections syncDown fetches, in source order
FetchOrder == <<"clients", "products", "client_products", "budgets", "rep_tasks", "client_followups">>
\* STORAGE_KEYS that hold collections
CollectionKeys == {"clients", "products", "visits", "orders", "order_items",
                   "client_products", "rep_tasks", "budgets", "client_followups"}

VARIABLES
  isOnline,       \* sync.ts module variable
  queue,          \* localforage item 'mutation_queue'
  store,          \* localforage items of the cached collections
  remoteRows,     \* rows present in the remote store
  pc,             \* per task: position in the function it runs
  lq,             \* per task: the array returned by its last getItem(mutation_queue)
  mutation,       \* per task: syncUp's `mutation` / enqueueMutation's argument
  processedCount, \* per task: syncUp's local counter
  result,         \* per task: how its promise settled ("none" while pending)
  retval,         \* per task: the value its promise resolved with
  error,          \* per task: the error it caught / rejected with
  startQueue,     \* history: the queue when the task's syncUp was called
  trace,          \* history: processMutation calls of the task's current run
  lastRun,        \* history: the previous syncUp run, if it resolved and nothing was enqueued since
  fetchIdx,       \* per task: index in FetchOrder of syncDown's current fetch
  fetched,        \* history: rows returned by this run's fetches
  storeBefore,    \* history: the store when the task's syncDown was called
  runs,           \* number of syncDown invocations so far
  calledOnline,   \* history: isOnline when the task's sync function was called
  fb,             \* per task: withOfflineFallback's arguments and call log
  mode,           \* "seq": tasks run one after another
  active_visit,   \* localforage item 'active_visit'
  page,           \* the route shown: "dashboard" ('/'), "start" ('/visit'), "visit" ('/visit/client')
  activeVisit,    \* VisitStart state
  isLoading,      \* VisitStart state
  clients,        \* VisitStart state
  selectedClient, \* VisitStart state
  loadData,       \* VisitStart: the loadData call of the live effect
  handler,        \* the UI handler that is running, with its history
  listener,       \* per task: position in the 'online' listener it runs
  call,           \* per task: the offlineStorage function it runs, with its arguments
  written,        \* history: per storage key, the argument of the last set call
  lastEvent,      \* history: the last thing that told sync.ts about connectivity
  order           \* history: enqueue order of the entries, and what the remote store received
vars == <<isOnline, queue, store, remoteRows, pc, lq, mutation, processedCount,
          result, retval, error, startQueue, trace, lastRun, fetchIdx, fetched,
          storeBefore, runs, calledOnline, fb, mode, call, written, lastEvent, order, active_visit, page,
          activeVisit, isLoading, clients, selectedClient, loadData, handler, listener>>

queueVars == <<queue, remoteRows, lq, mutation, processedCount, startQueue, trace, lastRun>>
upVars == <<queueVars, calledOnline>>
downVars == <<store, fetchIdx, fetched, storeBefore, runs>>
taskVars == <<pc, result, retval, error>>
pageVars == <<page, activeVisit, isLoading, clients, selectedClient, loadData>>
uiVars == <<active_visit, pageVars, handler>>

\* ------------------------------------------------------------- helpers
Range(s) == {s[i] : i \in 1..Len(s)}

RECURSIVE SeqFilter(_, _)
SeqFilter(s, keep) ==
  IF s = <<>> THEN <<>>
  ELSE IF Head(s) \in keep THEN <<Head(s)>> \o SeqFilter(Tail(s), keep)
       ELSE SeqFilter(Tail(s), keep)

IsPrefix(s, t) == Len(s) <= Len(t) /\ SubSeq(t, 1, Len(s)) = s

NoRun == [result |-> "none"]
NoArgs == [remote |-> "none"]
NoVisit == [visit_id |-> "none", client_id |-> "none"]   \* getItem's null for 'active_visit'
NoWrite == [table |-> "none"]
NoHandler == [name |-> "none"]
NoListener == [stage |-> "none"]
NoCall == [fn |-> "none"]
NeverSet == [set |-> FALSE]
\* connectivity history is kept by the specification whose properties read it
NoEvent == [type |-> "none"]
NoOrder == [count |-> 0, born |-> {}, received |-> <<>>]
\* sync.ts line 15: the module reads navigator.onLine when it is loaded
ModuleLoad(onLine) == [type |-> "load", onLine |-> onLine]
Idle(p) == pc[p] = "idle"
\* in mode "seq" tasks run one after another; which task object runs them makes
\* no difference, so the first one runs them all
Main == "p1"
CanStart(p) == Idle(p) /\ (mode = "seq" => p = Main)

\* uuidv4(): an identifier no live object carries
IdsIn(s) == {s[i].id : i \in 1..Len(s)}
UsedIds ==
  IdsIn(queue)
  \cup (UNION {IdsIn(lq[p]) \cup IdsIn(startQueue[p]) \cup {mutation[p].id}
              \cup {trace[p][i].m.id : i \in 1..Len(trace[p])} : p \in Procs})
uuidv4 == CHOOSE n \in 1..(Cardinality(UsedIds) + 1) :
            n \notin UsedIds /\ \A k \in 1..(n - 1) : k \in UsedIds

\* ------------------------------------------------ offline.ts: the queue
\* enqueueMutation, lines 256-263: the item built and pushed on the array read
QueueItem(m, newId) ==
  [id |-> newId, table |-> m.table, operation |-> m.operation,
   payload |-> m.payload, key |-> m.key, synced |-> FALSE]
\* mutant: unshift() instead of push()
PushedFront(q, m, newId) == <<QueueItem(m, newId)>> \o q
Pushed(q, m, newId) == Append(q, QueueItem(m, newId))

\* mutant: queue[0] is read and the array is written back whole
ShiftPeek(q) == [item |-> Head(q), rest |-> q]
\* mutant: pop() instead of shift()
ShiftLast(q) == [item |-> q[Len(q)], rest |-> SubSeq(q, 1, Len(q) - 1)]
\* dequeueMutation, line 274: queue.shift() returns the head and leaves the rest
Shift(q) == [item |-> Head(q), rest |-> Tail(q)]

\* mutant: every entry of the array is marked
MarkedSyncedAll(q, mutationId) == [i \in 1..Len(q) |-> [q[i] EXCEPT !.synced = TRUE]]
\* markMutationSynced, lines 285-287
MarkedSynced(q, mutationId) ==
  [i \in 1..Len(q) |-> IF q[i].id = mutationId THEN [q[i] EXCEPT !.synced = TRUE] ELSE q[i]]

\* removeSyncedMutations, line 293
Unsynced(q) == SeqFilter(q, {x \in Range(q) : ~x.synced})

\* getPendingMutationsCount, line 299
PendingMutationsCount == Len(Unsynced(queue))

\* the argument syncUp passes to enqueueMutation on failure, lines 153-158
RequeueArg(m) ==
  [table |-> m.table, operation |-> m.operation, payload |-> m.payload, key |-> m.key]

\* ------------------------------------------------- the remote store
\* answers the remote store can give to one write
RemoteAnswers(m) ==
  IF m.operation = "insert"
    THEN (IF m.payload \in remoteRows THEN {"23505", "error"} ELSE {"ok", "error"})
    ELSE {"ok", "23505", "error"}
\* rows after the remote store accepted the write
RemoteApply(rows, m) ==
  IF m.operation = "insert" THEN rows \cup ({m.payload} \cap RemoteRowIds) ELSE rows

\* mutant: the `if (!key) throw` checks (lines 192, 209) are missing
NeverThrowsBeforeRemote(m) == FALSE
\* processMutation: does the operation throw before any remote call?
ThrowsBeforeRemote(m) == m.operation \in {"update", "delete"} /\ m.key = Undefined
\* mutant: the duplicate-key escape (lines 183-186) is missing
ReturnsOnlyOnOk(m, answer) == answer = "ok"
\* mutant: the error test is inverted (`if (!error) throw`)
ThrowsOnOk(m, answer) == answer # "ok"
\* mutant: the duplicate-key escape applies to every operation
ReturnsOnAnyDuplicate(m, answer) == answer \in {"ok", "23505"}
\* processMutation: does the remote answer make it return normally?
ReturnsNormally(m, answer) ==
  \/ answer = "ok"
  \/ m.operation = "insert" /\ answer = "23505"

\* ----------------------------------------------------- task bookkeeping
\* the task's promise settles
Settle(p, label, how, value, err) ==
  /\ pc' = [pc EXCEPT ![p] = label]
  /\ result' = [result EXCEPT ![p] = how]
  /\ retval' = [retval EXCEPT ![p] = value]
  /\ error' = [error EXCEPT ![p] = err]
Goto(p, label) ==
  /\ pc' = [pc EXCEPT ![p] = label]
  /\ UNCHANGED <<result, retval, error>>

\* mutant: `return true`
AlwaysOnline == TRUE
\* isNetworkOnline, lines 221-223
isNetworkOnline == isOnline

\* ------------------------------------------------------ sync.ts: syncUp
\* mutant: no offline check
SyncUpNeverRefuses == FALSE
\* lines 134-136: the offline check, before the try block
SyncUpRefuses == ~isOnline
SyncUpCall(p) ==
  /\ CanStart(p)
  /\ calledOnline' = [calledOnline EXCEPT ![p] = isOnline]
  /\ startQueue' = [startQueue EXCEPT ![p] = queue]
  /\ trace' = [trace EXCEPT ![p] = <<>>]
  /\ processedCount' = [processedCount EXCEPT ![p] = 0]
  /\ IF SyncUpRefuses
       THEN Settle(p, "up_done", "rejected", Void, "offline")
       ELSE Goto(p, "dequeue_get")
  /\ UNCHANGED <<isOnline, queue, remoteRows, lq, mutation, lastRun, downVars, fb, mode, call, written, lastEvent, order, uiVars, listener>>

\* dequeueMutation, lines 268-272: getItem, null on an empty queue
DequeueGet(p) ==
  /\ pc[p] = "dequeue_get"
  /\ lq' = [lq EXCEPT ![p] = queue]
  /\ IF Len(queue) = 0
       THEN /\ mutation' = [mutation EXCEPT ![p] = Null]
            /\ Goto(p, "purge_get")
       ELSE /\ Goto(p, "dequeue_set")
            /\ UNCHANGED mutation
  /\ UNCHANGED <<isOnline, queue, remoteRows, processedCount, startQueue, trace,
                 lastRun, downVars, calledOnline, fb, mode, call, written, lastEvent, order, uiVars, listener>>

\* dequeueMutation, lines 274-276: shift, setItem, return the item
DequeueSet(p) ==
  /\ pc[p] = "dequeue_set"
  /\ queue' = Shift(lq[p]).rest
  /\ mutation' = [mutation EXCEPT ![p] = Shift(lq[p]).item]
  /\ lq' = [lq EXCEPT ![p] = <<>>]
  /\ Goto(p, "process")
  /\ UNCHANGED <<isOnline, remoteRows, processedCount, startQueue, trace,
                 lastRun, downVars, calledOnline, fb, mode, call, written, lastEvent, order, uiVars, listener>>

\* processMutation, lines 173-219, called at line 147
Logged(p, m, wasSent, answer) ==
  trace' = [trace EXCEPT ![p] = Append(@, [m |-> m, sent |-> wasSent, answer |-> answer])]
ProcessMutation(p) ==
  /\ pc[p] = "process"
  /\ LET m == mutation[p] IN
       IF ThrowsBeforeRemote(m)
         THEN /\ Logged(p, m, FALSE, "nokey")
              /\ pc' = [pc EXCEPT ![p] = "requeue_get"]
              /\ error' = [error EXCEPT ![p] = "nokey"]
              /\ UNCHANGED remoteRows
         ELSE \E answer \in RemoteAnswers(m) :
                /\ Logged(p, m, TRUE, answer)
                /\ remoteRows' = (IF answer = "ok" THEN RemoteApply(remoteRows, m) ELSE remoteRows)
                /\ IF ReturnsNormally(m, answer)
                     THEN /\ pc' = [pc EXCEPT ![p] = "mark_get"]
                          /\ UNCHANGED error
                     ELSE /\ pc' = [pc EXCEPT ![p] = "requeue_get"]
                          /\ error' = [error EXCEPT ![p] = answer]
  /\ UNCHANGED <<isOnline, queue, lq, mutation, processedCount, startQueue,
                 lastRun, result, retval, downVars, calledOnline, fb, mode, call, written, lastEvent, uiVars, listener>>

\* markMutationSynced, line 284: getItem
MarkGet(p) ==
  /\ pc[p] = "mark_get"
  /\ lq' = [lq EXCEPT ![p] = queue]
  /\ Goto(p, "mark_set")
  /\ UNCHANGED <<isOnline, queue, remoteRows, mutation, processedCount, startQueue,
                 trace, lastRun, downVars, calledOnline, fb, mode, call, written, lastEvent, order, uiVars, listener>>

\* markMutationSynced, lines 285-288: map, setItem; then processedCount++ (line 149)
MarkSet(p) ==
  /\ pc[p] = "mark_set"
  /\ queue' = MarkedSynced(lq[p], mutation[p].id)
  /\ lq' = [lq EXCEPT ![p] = <<>>]
  /\ processedCount' = [processedCount EXCEPT ![p] = @ + 1]
  /\ Goto(p, "dequeue_get")
  /\ UNCHANGED <<isOnline, remoteRows, mutation, startQueue, trace, lastRun,
                 downVars, calledOnline, fb, mode, call, written, lastEvent, order, uiVars, listener>>

\* catch block, line 153: enqueueMutation's getItem
RequeueGet(p) ==
  /\ pc[p] = "requeue_get"
  /\ lq' = [lq EXCEPT ![p] = queue]
  /\ Goto(p, "requeue_set")
  /\ UNCHANGED <<isOnline, queue, remoteRows, mutation, processedCount, startQueue,
                 trace, lastRun, downVars, calledOnline, fb, mode, call, written, lastEvent, order, uiVars, listener>>

\* catch block, lines 153-159: enqueueMutation's push and setItem, then rethrow
RequeueSet(p) ==
  /\ pc[p] = "requeue_set"
  /\ queue' = Pushed(lq[p], RequeueArg(mutation[p]), uuidv4)
  /\ lq' = [lq EXCEPT ![p] = <<>>]
  /\ Settle(p, "up_done", "rejected", Void, error[p])
  /\ UNCHANGED <<isOnline, remoteRows, mutation, processedCount, startQueue, trace,
                 lastRun, downVars, calledOnline, fb, mode, call, written, lastEvent, order, uiVars, listener>>

\* removeSyncedMutations, line 292: getItem
PurgeGet(p) ==
  /\ pc[p] = "purge_get"
  /\ lq' = [lq EXCEPT ![p] = queue]
  /\ Goto(p, "purge_set")
  /\ UNCHANGED <<isOnline, queue, remoteRows, mutation, processedCount, startQueue,
                 trace, lastRun, downVars, calledOnline, fb, mode, call, written, lastEvent, order, uiVars, listener>>

\* mutant: `return processedCount`
SyncUpCount(count) == Number(count)
\* the value syncUp's promise resolves with (Promise<void>, line 133)
SyncUpValue(count) == Void

\* removeSyncedMutations, lines 293-294; syncUp logs the count and returns (166-171)
PurgeSet(p) ==
  /\ pc[p] = "purge_set"
  /\ queue' = Unsynced(lq[p])
  /\ lq' = [lq EXCEPT ![p] = <<>>]
  /\ Settle(p, "up_done", "resolved", SyncUpValue(processedCount[p]), "none")
  /\ UNCHANGED <<isOnline, remoteRows, mutation, processedCount, startQueue, trace,
                 lastRun, downVars, calledOnline, fb, mode, call, written, lastEvent, order, uiVars, listener>>

\* the caller has observed the settled promise of a syncUp run
RunSummary(p) ==
  [result |-> result[p],
   start |-> [i \in 1..Len(startQueue[p]) |-> RequeueArg(startQueue[p][i])],
   answers |-> [i \in 1..Len(trace[p]) |-> trace[p][i].answer],
   end |-> [i \in 1..Len(queue) |-> RequeueArg(queue[i])]]
SyncUpReturn(p) ==
  /\ pc[p] = "up_done"
  /\ lastRun' = (IF result[p] = "resolved" THEN RunSummary(p) ELSE NoRun)
  /\ pc' = [pc EXCEPT ![p] = "idle"]
  /\ result' = [result EXCEPT ![p] = "none"]
  /\ retval' = [retval EXCEPT ![p] = Void]
  /\ error' = [error EXCEPT ![p] = "none"]
  /\ calledOnline' = [calledOnline EXCEPT ![p] = FALSE]
  /\ mutation' = [mutation EXCEPT ![p] = Null]
  /\ processedCount' = [processedCount EXCEPT ![p] = 0]
  /\ startQueue' = [startQueue EXCEPT ![p] = <<>>]
  /\ trace' = [trace EXCEPT ![p] = <<>>]
  /\ UNCHANGED <<isOnline, queue, remoteRows, lq, downVars, fb, mode, call, written, lastEvent, order, uiVars, listener>>

\* --------------------------------------- UI write paths: enqueueMutation
\* enqueueMutation, line 254: getItem. The calling handler's own bookkeeping
\* (`handler`) is left to the step that makes the call.
EnqueueGet(p, m) ==
  /\ CanStart(p)
  /\ Len(queue) < MaxQueue
  /\ mutation' = [mutation EXCEPT ![p] = QueueItem(m, 0)]
  /\ lq' = [lq EXCEPT ![p] = queue]
  /\ lastRun' = NoRun
  /\ Goto(p, "enqueue_set")
  /\ UNCHANGED <<isOnline, queue, remoteRows, processedCount, startQueue, trace,
                 downVars, calledOnline, fb, mode, call, written, lastEvent, order, active_visit, pageVars, listener>>

\* enqueueMutation, lines 256-264: push, setItem
EnqueueSet(p) ==
  /\ pc[p] = "enqueue_set"
  /\ queue' = Pushed(lq[p], RequeueArg(mutation[p]), uuidv4)
  /\ lq' = [lq EXCEPT ![p] = <<>>]
  /\ mutation' = [mutation EXCEPT ![p] = Null]
  /\ Goto(p, "idle")
  /\ UNCHANGED <<isOnline, remoteRows, processedCount, startQueue, trace, lastRun,
                 downVars, calledOnline, fb, mode, call, written, lastEvent, active_visit, pageVars, listener>>

\* ------------------------------------- sync.ts: network event listeners
\* lines 29-32
OfflineEvent ==
  /\ isOnline
  /\ isOnline' = FALSE
  /\ UNCHANGED <<upVars, downVars, taskVars, fb, mode, call, written, order, uiVars, listener>>

\* line 19: the flag is set before the listener's first await. The listener's
\* awaited calls (lines 22-23) are the SyncUpCall and SyncDownCall steps of a
\* task; any of them may follow this step, so every run the listener starts
\* is a run of the specification.
OnlineEvent ==
  /\ ~isOnline
  /\ isOnline' = TRUE
  /\ UNCHANGED <<upVars, downVars, taskVars, fb, mode, call, written, order, uiVars, listener>>

\* ------------------------------------------------- the sync-up system
InitCommon ==
  /\ isOnline \in BOOLEAN
  /\ pc = [p \in Procs |-> "idle"]
  /\ lq = [p \in Procs |-> <<>>]
  /\ mutation = [p \in Procs |-> Null]
  /\ processedCount = [p \in Procs |-> 0]
  /\ result = [p \in Procs |-> "none"]
  /\ retval = [p \in Procs |-> Void]
  /\ calledOnline = [p \in Procs |-> FALSE]
  /\ error = [p \in Procs |-> "none"]
  /\ startQueue = [p \in Procs |-> <<>>]
  /\ trace = [p \in Procs |-> <<>>]
  /\ lastRun = NoRun
  /\ fetchIdx = [p \in Procs |-> 0]
  /\ fetched = [p \in Procs |-> <<>>]
  /\ storeBefore = [p \in Procs |-> <<>>]
  /\ runs = 0
  /\ fb = [p \in Procs |-> NoArgs]
  /\ page = "start"
  /\ activeVisit = NoVisit
  /\ isLoading = TRUE
  /\ clients = {}
  /\ selectedClient = "none"
  /\ loadData = [pc |-> "get", activeVisitData |-> NoVisit]
  /\ handler = NoHandler
  /\ listener = [p \in Procs |-> NoListener]
  /\ call = [p \in Procs |-> NoCall]
  /\ written = [k \in CollectionKeys \cup {"active_visit"} |-> NeverSet]
  /\ order = NoOrder

Init ==
  /\ InitCommon
  /\ lastEvent = NoEvent
  /\ queue = <<>>
  /\ store = [k \in CollectionKeys |-> [stored |-> FALSE, data |-> <<>>]]
  /\ remoteRows \in SUBSET RemoteRowIds
  /\ mode = "seq"
  /\ active_visit = NoVisit

Next ==
  \/ \E p \in Procs : SyncUpCall(p)
  \/ \E p \in Procs : DequeueGet(p)
  \/ \E p \in Procs : DequeueSet(p)
  \/ \E p \in Procs : ProcessMutation(p) /\ UNCHANGED order
  \/ \E p \in Procs : MarkGet(p)
  \/ \E p \in Procs : MarkSet(p)
  \/ \E p \in Procs : RequeueGet(p)
  \/ \E p \in Procs : RequeueSet(p)
  \/ \E p \in Procs : PurgeGet(p)
  \/ \E p \in Procs : PurgeSet(p)
  \/ \E p \in Procs : SyncUpReturn(p)
  \/ \E p \in Procs, m \in Mutations : EnqueueGet(p, m) /\ UNCHANGED handler
  \/ \E p \in Procs : EnqueueSet(p) /\ UNCHANGED <<handler, order>>
  \/ OfflineEvent /\ UNCHANGED lastEvent
  \/ OnlineEvent /\ UNCHANGED lastEvent

Spec == Init /\ [][Next]_vars

\* ---------------------------------------------------- sync.ts: syncDown
\* rows of one table: `gen` tells the rows of this run's remote snapshot ("new")
\* from rows cached by an earlier session ("old")
Rows(table, gen, n) == [i \in 1..n |-> <<table, gen, i>>]
\* what one remote select can answer: an error, or up to MaxRows rows
FetchAnswers(table) ==
  {[error |-> TRUE, data |-> <<>>]}
  \cup {[error |-> FALSE, data |-> Rows(table, "new", n)] : n \in 0..MaxRows}

\* a localforage item: absent, or holding an array
NotStored == [stored |-> FALSE, data |-> <<>>]
Stored(data) == [stored |-> TRUE, data |-> data]

\* mutant: the fetched rows are merged into what is cached
SetDataMerged(st, key, data) ==
  [st EXCEPT ![key] = [stored |-> TRUE, data |-> st[key].data \o data]]
\* setData, line 149: setItem overwrites the whole collection
SetData(st, key, data) == [st EXCEPT ![key] = Stored(data)]
\* getData, lines 153-154: the stored array, or [] when nothing is stored
GetData(st, key) == IF st[key].stored THEN st[key].data ELSE <<>>

\* mutant: setActiveVisit(null) writes nothing
StorageSetActiveVisitKeeps(item, visit) == IF visit # NoVisit THEN visit ELSE item
\* storageSetActiveVisit, lines 157-163: setItem for a visit, removeItem for null;
\* the item after the call (NoVisit: no item, getItem answers null)
StorageSetActiveVisit(item, visit) == IF visit # NoVisit THEN visit ELSE NoVisit
\* storageGetActiveVisit, lines 165-167: getItem's answer
StorageGetActiveVisit(item) == item

\* mutant: no offline check
SyncDownNeverRefuses == FALSE
\* lines 63-65: the offline check, before the try block
SyncDownRefuses == ~isOnline
\* one syncDown invocation is followed per behaviour; earlier invocations are
\* the persisted stores Init chooses from
SyncDownCall(p) ==
  /\ CanStart(p)
  /\ runs = 0
  /\ runs' = runs + 1
  /\ calledOnline' = [calledOnline EXCEPT ![p] = isOnline]
  /\ storeBefore' = [storeBefore EXCEPT ![p] = store]
  /\ fetched' = [fetched EXCEPT ![p] = <<>>]
  /\ IF SyncDownRefuses
       THEN /\ Settle(p, "down_done", "rejected", Void, "offline")
            /\ UNCHANGED fetchIdx
       ELSE /\ Goto(p, "fetch")
            /\ fetchIdx' = [fetchIdx EXCEPT ![p] = 1]
  /\ UNCHANGED <<isOnline, store, queueVars, fb, mode, call, written, lastEvent, order, uiVars, listener>>

\* the awaited select of the current fetch (lines 71, 80, 88, 97, 108, 119) and
\* the `if (error) throw error` after it, rethrown by the catch at line 129
Fetch(p) ==
  /\ pc[p] = "fetch"
  /\ \E answer \in FetchAnswers(FetchOrder[fetchIdx[p]]) :
       IF answer.error
         THEN /\ Settle(p, "down_done", "rejected", Void, "error")
              /\ UNCHANGED fetched
         ELSE /\ fetched' = [fetched EXCEPT ![p] = Append(@, answer.data)]
              /\ Goto(p, "set_data")
  /\ UNCHANGED <<isOnline, store, fetchIdx, storeBefore, runs, upVars, fb, mode, call, written, lastEvent, order, uiVars, listener>>

\* mutant: products and client_products written to each other's collection
TargetKeySwapped(k) == IF k = 2 THEN FetchOrder[3] ELSE IF k = 3 THEN FetchOrder[2] ELSE FetchOrder[k]
\* the collection the k-th fetch's rows are written to (lines 77, 85, 93, 104, 116, 124)
TargetKey(k) == FetchOrder[k]

\* mutant: every write of syncDown also empties the mutation queue
StoreFetchedClearsQueue(p) ==
  /\ pc[p] = "set_data"
  /\ store' = SetData(store, FetchOrder[fetchIdx[p]], fetched[p][fetchIdx[p]])
  /\ queue' = <<>>
  /\ IF fetchIdx[p] = Len(FetchOrder)
       THEN /\ Settle(p, "down_done", "resolved", Void, "none")
            /\ UNCHANGED fetchIdx
       ELSE /\ Goto(p, "fetch")
            /\ fetchIdx' = [fetchIdx EXCEPT ![p] = @ + 1]
  /\ UNCHANGED <<isOnline, fetched, storeBefore, runs, remoteRows, lq, mutation, processedCount,
                 startQueue, trace, lastRun, calledOnline, fb, mode, call, written, lastEvent,
                 order, uiVars, listener>>
\* the awaited offlineStorage.setX(rows) of the current fetch
StoreFetched(p) ==
  /\ pc[p] = "set_data"
  /\ store' = SetData(store, TargetKey(fetchIdx[p]), fetched[p][fetchIdx[p]])
  /\ IF fetchIdx[p] = Len(FetchOrder)
       THEN /\ Settle(p, "down_done", "resolved", Void, "none")
            /\ UNCHANGED fetchIdx
       ELSE /\ Goto(p, "fetch")
            /\ fetchIdx' = [fetchIdx EXCEPT ![p] = @ + 1]
  /\ UNCHANGED <<isOnline, fetched, storeBefore, runs, upVars, fb, mode, call, written, lastEvent, order, uiVars, listener>>

\* persisted stores a session can start with
NeverSynced == [k \in CollectionKeys |-> NotStored]
\* after an earlier successful syncDown
SyncedBefore ==
  [k \in CollectionKeys |-> IF k \in Range(FetchOrder) THEN Stored(Rows(k, "old", MaxRows + 1)) ELSE NotStored]
\* after an earlier syncDown whose third fetch failed
PartlySynced ==
  [k \in CollectionKeys |-> IF k \in {FetchOrder[1], FetchOrder[2]} THEN Stored(Rows(k, "old", 1)) ELSE NotStored]
PersistedStores == {NeverSynced, SyncedBefore, PartlySynced}

InitDown ==
  /\ InitCommon
  /\ lastEvent = NoEvent
  /\ queue = <<>>
  /\ store \in PersistedStores
  /\ remoteRows = {}
  /\ mode = "seq"
  /\ active_visit = NoVisit

NextDown ==
  \/ \E p \in Procs : SyncDownCall(p)
  \/ \E p \in Procs : Fetch(p)
  \/ \E p \in Procs : StoreFetched(p)
  \/ OfflineEvent /\ UNCHANGED lastEvent
  \/ OnlineEvent /\ UNCHANGED lastEvent

SpecDown == InitDown /\ [][NextDown]_vars

\* ----------------------------------------- sync.ts: withOfflineFallback
Values == {"x", "y", "z"}
\* an operation passed in: it throws, or resolves with a value
Throws == [throws |-> TRUE]
Resolves(v) == [throws |-> FALSE, value |-> v]
Operations == {Throws} \cup {Resolves(v) : v \in Values}
Value(v) == [type |-> "value", value |-> v]

\* mutant: no offline branch, the remote operation is always tried
FallbackNeverSkipsRemote == FALSE
\* mutant: the remote operation is never tried
FallbackAlwaysSkipsRemote == TRUE
\* line 231
FallbackSkipsRemote == ~isOnline
WithOfflineFallbackCall(p, supabaseOperation, offlineOperation, fallbackValue) ==
  /\ CanStart(p)
  /\ calledOnline' = [calledOnline EXCEPT ![p] = isOnline]
  /\ fb' = [fb EXCEPT ![p] = [remote |-> supabaseOperation, local |-> offlineOperation,
                              fallback |-> fallbackValue, calls |-> <<>>]]
  /\ Goto(p, IF FallbackSkipsRemote THEN "fb_local" ELSE "fb_remote")
  /\ UNCHANGED <<isOnline, queueVars, downVars, mode, call, written, lastEvent, order, uiVars, listener>>

\* lines 240-243: await supabaseOperation()
FallbackRemote(p) ==
  /\ pc[p] = "fb_remote"
  /\ fb' = [fb EXCEPT ![p].calls = Append(@, "remote")]
  /\ IF fb[p].remote.throws
       THEN Goto(p, "fb_local")
       ELSE Settle(p, "fb_done", "resolved", Value(fb[p].remote.value), "none")
  /\ UNCHANGED <<isOnline, upVars, downVars, mode, call, written, lastEvent, order, uiVars, listener>>

\* mutant: no catch around offlineOperation
AfterLocalUncaught(op, fallbackValue) ==
  IF op.throws THEN [how |-> "rejected", value |-> Void]
               ELSE [how |-> "resolved", value |-> Value(op.value)]
\* how the promise settles after offlineOperation ran (lines 232-237 and 244-249)
AfterLocal(op, fallbackValue) ==
  IF op.throws THEN [how |-> "resolved", value |-> Value(fallbackValue)]
               ELSE [how |-> "resolved", value |-> Value(op.value)]

\* lines 233 and 245: await offlineOperation()
FallbackLocal(p) ==
  /\ pc[p] = "fb_local"
  /\ fb' = [fb EXCEPT ![p].calls = Append(@, "local")]
  /\ LET out == AfterLocal(fb[p].local, fb[p].fallback) IN
       Settle(p, "fb_done", out.how, out.value, IF out.how = "rejected" THEN "error" ELSE "none")
  /\ UNCHANGED <<isOnline, upVars, downVars, mode, call, written, lastEvent, order, uiVars, listener>>

\* the caller has observed the settled promise
FallbackReturn(p) ==
  /\ pc[p] = "fb_done"
  /\ pc' = [pc EXCEPT ![p] = "idle"]
  /\ result' = [result EXCEPT ![p] = "none"]
  /\ retval' = [retval EXCEPT ![p] = Void]
  /\ error' = [error EXCEPT ![p] = "none"]
  /\ calledOnline' = [calledOnline EXCEPT ![p] = FALSE]
  /\ fb' = [fb EXCEPT ![p] = NoArgs]
  /\ UNCHANGED <<isOnline, queueVars, downVars, mode, call, written, lastEvent, order, uiVars, listener>>

NextFallback ==
  \/ \E p \in Procs, r \in Operations, l \in Operations, v \in Values :
       WithOfflineFallbackCall(p, r, l, v)
  \/ \E p \in Procs : FallbackRemote(p)
  \/ \E p \in Procs : FallbackLocal(p)
  \/ \E p \in Procs : FallbackReturn(p)
  \/ OfflineEvent /\ UNCHANGED lastEvent
  \/ OnlineEvent /\ UNCHANGED lastEvent

InitFallback ==
  /\ InitCommon
  /\ lastEvent = NoEvent
  /\ queue = <<>>
  /\ store = NeverSynced
  /\ remoteRows = {}
  /\ mode = "seq"
  /\ active_visit = NoVisit

SpecFallback == InitFallback /\ [][NextFallback]_vars

\* ------------------------------------------------- pages/VisitStart
engineVars == <<isOnline, upVars, downVars, taskVars, fb, mode, call, written, lastEvent, order, listener>>

\* storageSetActiveVisit's argument (offline.ts, ActiveVisit)
ActiveVisit(visitId, clientId) == [visit_id |-> visitId, client_id |-> clientId]
\* what 'active_visit' can hold when the app is opened: nothing, or the marker of
\* a visit that was not ended before the app was closed
PersistedVisits == {NoVisit, ActiveVisit("v0", "c0")}
\* the rows loadData's clients query can return
FetchedClients == {"c0"}

\* VisitStart is mounted: initial state (lines 597-604) and the first run of the
\* load effect (line 669)
MountVisitStart ==
  /\ page' = "start"
  /\ activeVisit' = NoVisit
  /\ isLoading' = TRUE
  /\ clients' = {}
  /\ selectedClient' = "none"
  /\ loadData' = [pc |-> "get", activeVisitData |-> NoVisit]
\* VisitStart is unmounted: its state is dropped, the effect's cleanup (671-674)
\* makes the pending loadData ineffective
UnmountVisitStart ==
  /\ page' = "visit"
  /\ activeVisit' = NoVisit
  /\ isLoading' = TRUE
  /\ clients' = {}
  /\ selectedClient' = "none"
  /\ loadData' = [pc |-> "idle", activeVisitData |-> NoVisit]

\* loadData, line 647: offlineStorage.getActiveVisit() reads the item
LoadDataGet ==
  /\ page = "start"
  /\ loadData.pc = "get"
  /\ loadData' = [pc |-> "wait", activeVisitData |-> StorageGetActiveVisit(active_visit)]
  /\ UNCHANGED <<engineVars, active_visit, page, activeVisit, isLoading, clients,
                 selectedClient, handler>>

\* loadData, lines 630-654: Promise.all has resolved (withOfflineFallback never
\* rejects), the state is set; a change of isLoading re-runs the effect (line 675)
LoadDataDone ==
  /\ page = "start"
  /\ loadData.pc = "wait"
  /\ \E clientsData \in SUBSET FetchedClients : clients' = clientsData
  /\ activeVisit' = loadData.activeVisitData
  /\ isLoading' = FALSE
  /\ loadData' = [pc |-> IF isLoading THEN "get" ELSE "idle", activeVisitData |-> NoVisit]
  /\ UNCHANGED <<engineVars, active_visit, page, selectedClient, handler>>

\* lines 663-667: after 8000 ms the page stops waiting for loadData; the change of
\* isLoading re-runs the effect, whose cleanup drops the pending call's results
LoadTimeout ==
  /\ page = "start"
  /\ isLoading
  /\ loadData.pc \in {"get", "wait"}
  /\ isLoading' = FALSE
  /\ loadData' = [pc |-> "get", activeVisitData |-> NoVisit]
  /\ UNCHANGED <<engineVars, active_visit, page, activeVisit, clients, selectedClient, handler>>

\* the client dropdown, lines 897-900 (rendered once isLoading is false, line 826)
SelectClient(c) ==
  /\ page = "start"
  /\ ~isLoading
  /\ c \in clients
  /\ selectedClient # c
  /\ selectedClient' = c
  /\ UNCHANGED <<engineVars, active_visit, page, activeVisit, isLoading, clients,
                 loadData, handler>>

\* handleResumeVisit, lines 821-825
HandleResumeVisit ==
  /\ page = "start"
  /\ ~isLoading
  /\ handler = NoHandler
  /\ activeVisit # NoVisit
  /\ UnmountVisitStart
  /\ UNCHANGED <<engineVars, active_visit, handler>>

\* the user opens the start page (route '/visit', App routes)
NavigateVisitStart ==
  /\ page # "start"
  /\ handler = NoHandler
  /\ MountVisitStart
  /\ UNCHANGED <<engineVars, active_visit, handler>>

\* ------------------------------------------------ UI write handlers
Handlers == {"handleAddClient", "handleStartVisit", "handleNotesUpdate", "handleAddFollowUp",
             "handleListProducts", "handleDelistProduct", "handleEndVisit"}
PageOf(h) == IF h \in {"handleAddClient", "handleStartVisit"} THEN "start" ELSE "visit"
Write(table, operation, payload, key) ==
  [table |-> table, operation |-> operation, payload |-> payload, key |-> key]
\* the remote writes each handler intends, as it passes them to enqueueMutation;
\* rows created here carry fresh ids, which the remote store does not hold
Writes(h) ==
  CASE h = "handleAddClient" -> <<Write("clients", "insert", "c2", Undefined)>>
    [] h = "handleStartVisit" -> <<Write("visits", "insert", "v1", Undefined)>>
    [] h = "handleNotesUpdate" -> <<Write("visits", "update", "notes", "v1")>>
    [] h = "handleAddFollowUp" -> <<Write("rep_tasks", "insert", "t1", Undefined)>>
    [] h = "handleListProducts" -> <<Write("client_products", "upsert", "cp2", Undefined),
                                     Write("visit_skus", "insert", "vs1", Undefined)>>
    [] h = "handleDelistProduct" -> <<Write("client_products", "update", "delisted", "cp1")>>
    [] h = "handleEndVisit" -> <<Write("visits", "update", "check_out_time", "v1"),
                                 Write("clients", "update", "last_visit_date", "c1")>>
\* mutant: no handler tests the remote answer
ChecksErrorNever(h) == FALSE
\* handlers that test the remote answer (`if (error) throw error`); the two
\* Promise.all handlers do not
ChecksError(h) == h \notin {"handleListProducts", "handleEndVisit"}
\* handlers that write the active visit marker after their remote writes
SetsActiveVisit(h) == h \in {"handleStartVisit", "handleEndVisit"}
AfterWrites(h) == IF SetsActiveVisit(h) THEN "set_active_visit" ELSE "finish"
\* the enqueueMutation calls a handler starts: one, or two at once in Promise.all
Todo(w) == [p \in Procs |-> IF p = "p1" THEN w[1] ELSE IF Len(w) >= 2 THEN w[2] ELSE NoWrite]

\* handleStartVisit, lines 761-764: the check of the component's activeVisit state
StartVisitRefuses == activeVisit # NoVisit

\* a handler is invoked and runs up to its first await; isNetworkOnline() is
\* evaluated here. Start-page handlers exist once the page is rendered (line 826).
HandlerCall(h) ==
  /\ handler = NoHandler
  /\ \A p \in Procs : Idle(p)
  /\ page = PageOf(h)
  /\ page = "start" => ~isLoading
  /\ h = "handleStartVisit" => selectedClient # "none"
  /\ isOnline \/ Len(queue) + Len(Writes(h)) <= MaxQueue
  /\ LET refused == h = "handleStartVisit" /\ StartVisitRefuses
         enqueues == ~refused /\ ~isOnline
     IN handler' =
          [name |-> h, online |-> isOnline, queue |-> queue, marker |-> active_visit,
           remote |-> <<>>, answers |-> <<>>,
           todo |-> IF enqueues THEN Todo(Writes(h)) ELSE [p \in Procs |-> NoWrite],
           pending |-> IF enqueues THEN Len(Writes(h)) ELSE 0,
           stage |-> IF refused THEN "done" ELSE IF isOnline THEN "remote" ELSE "enqueue",
           outcome |-> IF refused THEN "refused" ELSE "none"]
  /\ UNCHANGED <<engineVars, active_visit, pageVars>>

\* the online branch: the awaited remote write, or the two of a Promise.all
HandlerRemote ==
  /\ handler # NoHandler
  /\ handler.stage = "remote"
  /\ LET w == Writes(handler.name) IN
       \E answers \in [1..Len(w) -> {"ok", "error"}] :
         LET failed == ChecksError(handler.name) /\ \E i \in 1..Len(w) : answers[i] = "error"
         IN handler' = [handler EXCEPT !.remote = w, !.answers = answers,
                                       !.stage = IF failed THEN "done" ELSE AfterWrites(handler.name),
                                       !.outcome = IF failed THEN "failed" ELSE "none"]
  /\ UNCHANGED <<engineVars, active_visit, pageVars>>

\* the offline branch: one of the handler's enqueueMutation calls reads the queue
HandlerEnqueueGet(p) ==
  /\ handler # NoHandler
  /\ handler.stage = "enqueue"
  /\ handler.todo[p] # NoWrite
  /\ EnqueueGet(p, handler.todo[p])
  /\ handler' = [handler EXCEPT !.todo[p] = NoWrite]

\* the offline branch: one of the calls writes the queue back; when all of the
\* handler's calls have resolved its await is over
HandlerEnqueueSet(p) ==
  /\ handler # NoHandler
  /\ handler.stage = "enqueue"
  /\ EnqueueSet(p)
  /\ UNCHANGED order
  /\ handler' = [handler EXCEPT !.pending = @ - 1,
                                !.stage = IF handler.pending = 1 THEN AfterWrites(handler.name) ELSE @]

\* handleStartVisit line 807: offlineStorage.setActiveVisit(newActiveVisit);
\* handleEndVisit (part_007 line 728): offlineStorage.setActiveVisit(null)
HandlerSetActiveVisit ==
  /\ handler # NoHandler
  /\ handler.stage = "set_active_visit"
  /\ active_visit' = StorageSetActiveVisit(active_visit,
                        IF handler.name = "handleStartVisit" THEN ActiveVisit("v1", selectedClient)
                                                             ELSE NoVisit)
  /\ handler' = [handler EXCEPT !.stage = "finish"]
  /\ UNCHANGED <<engineVars, pageVars>>

\* the rest of the try block: state updates and navigation
HandlerFinish ==
  /\ handler # NoHandler
  /\ handler.stage = "finish"
  /\ handler' = [handler EXCEPT !.stage = "done", !.outcome = "ok"]
  /\ CASE handler.name = "handleStartVisit" -> UnmountVisitStart
       [] handler.name = "handleEndVisit" ->
            /\ page' = "dashboard"
            /\ UNCHANGED <<activeVisit, isLoading, clients, selectedClient, loadData>>
       [] handler.name = "handleAddClient" ->
            /\ clients' = clients \cup {"c2"}
            /\ selectedClient' = "c2"
            /\ UNCHANGED <<page, activeVisit, isLoading, loadData>>
       [] OTHER -> UNCHANGED pageVars
  /\ UNCHANGED <<engineVars, active_visit>>

\* the handler's promise has settled
HandlerReturn ==
  /\ handler # NoHandler
  /\ handler.stage = "done"
  /\ handler' = NoHandler
  /\ UNCHANGED <<engineVars, active_visit, pageVars>>

InitUi ==
  /\ InitCommon
  /\ lastEvent = NoEvent
  /\ queue = <<>>
  /\ store = NeverSynced
  /\ remoteRows = {}
  /\ mode = "ui"
  /\ active_visit \in PersistedVisits

NextUi ==
  \/ LoadDataGet
  \/ LoadDataDone
  \/ LoadTimeout
  \/ \E c \in FetchedClients \cup {"c2"} : SelectClient(c)
  \/ HandleResumeVisit
  \/ NavigateVisitStart
  \/ \E h \in Handlers : HandlerCall(h)
  \/ HandlerRemote
  \/ \E p \in Procs : HandlerEnqueueGet(p)
  \/ \E p \in Procs : HandlerEnqueueSet(p)
  \/ HandlerSetActiveVisit
  \/ HandlerFinish
  \/ HandlerReturn
  \/ OfflineEvent /\ UNCHANGED lastEvent
  \/ OnlineEvent /\ UNCHANGED lastEvent

SpecUi == InitUi /\ [][NextUi]_vars

\* ------------------------------------------- overlapping syncUp runs
\* queues the UI has built up by enqueueing one mutation after another
QueuedBefore ==
  UNION {{[i \in 1..n |-> QueueItem(ms[i], i)] : ms \in [1..n -> Mutations]} : n \in 0..MaxQueue}

\* both tasks may be in syncUp at once: the 'online' listener (sync.ts 22) and
\* the sync button (SyncButton handleSync) each call it without looking at the
\* other. One run per task is followed, up to its settled promise or its
\* MaxQueue-th dispatch (stale write-backs of the other run can refill the queue
\* without end).
InitOverlap ==
  /\ InitCommon
  /\ lastEvent = NoEvent
  /\ queue \in QueuedBefore
  /\ store = NeverSynced
  /\ remoteRows = {}
  /\ mode = "overlap"
  /\ active_visit = NoVisit

NextOverlap ==
  \/ \E p \in Procs : SyncUpCall(p)
  \/ \E p \in Procs : DequeueGet(p)
  \/ \E p \in Procs : DequeueSet(p)
  \/ \E p \in Procs : Len(trace[p]) < MaxQueue /\ ProcessMutation(p) /\ UNCHANGED order
  \/ \E p \in Procs : MarkGet(p)
  \/ \E p \in Procs : MarkSet(p)
  \/ \E p \in Procs : RequeueGet(p)
  \/ \E p \in Procs : RequeueSet(p)
  \/ \E p \in Procs : PurgeGet(p)
  \/ \E p \in Procs : PurgeSet(p)
  \/ OfflineEvent /\ UNCHANGED lastEvent
  \/ OnlineEvent /\ UNCHANGED lastEvent

SpecOverlap == InitOverlap /\ [][NextOverlap]_vars

\* ------------------------------------ sync.ts: the 'online' listener
\* mutant: await syncDown() is not skipped when await syncUp() throws
ListenerSyncsDownAlways(upResult) == TRUE
\* lines 22-23: syncDown is called once the awaited syncUp has resolved
ListenerSyncsDown(upResult) == upResult = "resolved"
\* mutant: no try/catch around the two awaits
ListenerUncaught(inner) == inner
\* lines 21-26: how the listener's promise settles, given how the awaited call did
ListenerSettled(inner) == "resolved"

\* lines 18-22: the event sets the flag and calls syncUp, whose offline check
\* (line 134) then passes; the call runs up to dequeueMutation's getItem. One
\* reconnect sync that gets as far as syncDown is followed per behaviour.
ListenerOnline(p) ==
  /\ ~isOnline
  /\ CanStart(p)
  /\ runs = 0
  /\ isOnline' = TRUE
  /\ lastEvent' = [type |-> "online"]
  /\ listener' = [listener EXCEPT ![p] = [trigger |-> "online", stage |-> "syncUp", up |-> "none",
                                          drained |-> 0, settled |-> "none", logged |-> "none"]]
  /\ calledOnline' = [calledOnline EXCEPT ![p] = TRUE]
  /\ startQueue' = [startQueue EXCEPT ![p] = queue]
  /\ trace' = [trace EXCEPT ![p] = <<>>]
  /\ processedCount' = [processedCount EXCEPT ![p] = 0]
  /\ Goto(p, "dequeue_get")
  /\ UNCHANGED <<queue, remoteRows, lq, mutation, lastRun, downVars, fb, mode, call, written, order, uiVars>>

\* SyncButton.handleSync (part_002 lines 35-45): refused with a toast while the
\* component's isOnline state, kept by its own 'online'/'offline' listeners, is
\* false; otherwise syncUp is called and runs up to dequeueMutation's getItem.
\* The rest of its try/catch (lines 44-56: await syncUp, await syncDown, catch)
\* has the shape of the listener's and takes the same steps.
HandleSync(p) ==
  /\ isNetworkOnline
  /\ CanStart(p)
  /\ runs = 0
  /\ listener' = [listener EXCEPT ![p] = [trigger |-> "button", stage |-> "syncUp", up |-> "none",
                                          drained |-> 0, settled |-> "none", logged |-> "none"]]
  /\ calledOnline' = [calledOnline EXCEPT ![p] = isOnline]
  /\ startQueue' = [startQueue EXCEPT ![p] = queue]
  /\ trace' = [trace EXCEPT ![p] = <<>>]
  /\ processedCount' = [processedCount EXCEPT ![p] = 0]
  /\ Goto(p, "dequeue_get")
  /\ UNCHANGED <<isOnline, queue, remoteRows, lq, mutation, lastRun, downVars, fb, mode, call,
                 written, lastEvent, order, uiVars>>

\* lines 22-25: syncUp has settled. Resolved: syncDown is called and runs up to
\* its first select (lines 62-71). Rejected: the catch block logs the error.
ListenerAfterSyncUp(p) ==
  /\ listener[p] # NoListener
  /\ listener[p].stage = "syncUp"
  /\ pc[p] = "up_done"
  /\ IF ListenerSyncsDown(result[p])
       THEN /\ listener' = [listener EXCEPT ![p].stage = "syncDown", ![p].up = result[p],
                                            ![p].drained = Len(trace[p])]
            /\ runs' = runs + 1
            /\ calledOnline' = [calledOnline EXCEPT ![p] = isOnline]
            /\ storeBefore' = [storeBefore EXCEPT ![p] = store]
            /\ fetched' = [fetched EXCEPT ![p] = <<>>]
            /\ IF SyncDownRefuses
                 THEN /\ Settle(p, "down_done", "rejected", Void, "offline")
                      /\ UNCHANGED fetchIdx
                 ELSE /\ Settle(p, "fetch", "none", Void, "none")
                      /\ fetchIdx' = [fetchIdx EXCEPT ![p] = 1]
            /\ mutation' = [mutation EXCEPT ![p] = Null]
            /\ processedCount' = [processedCount EXCEPT ![p] = 0]
            /\ startQueue' = [startQueue EXCEPT ![p] = <<>>]
            /\ trace' = [trace EXCEPT ![p] = <<>>]
            /\ UNCHANGED <<isOnline, queue, store, remoteRows, lq, lastRun, fb, mode, call, written, lastEvent, order, uiVars>>
       ELSE /\ listener' = [listener EXCEPT ![p].stage = "done", ![p].up = result[p],
                                            ![p].drained = Len(trace[p]),
                                            ![p].settled = ListenerSettled(result[p]),
                                            ![p].logged = error[p]]
            /\ UNCHANGED <<isOnline, upVars, downVars, taskVars, fb, mode, call, written, lastEvent, order, uiVars>>

\* lines 23-26: syncDown has settled; a rejection is caught and logged
ListenerAfterSyncDown(p) ==
  /\ listener[p] # NoListener
  /\ listener[p].stage = "syncDown"
  /\ pc[p] = "down_done"
  /\ listener' = [listener EXCEPT ![p].stage = "done",
                                  ![p].settled = ListenerSettled(result[p]),
                                  ![p].logged = IF result[p] = "rejected" THEN error[p] ELSE "none"]
  /\ UNCHANGED <<isOnline, upVars, downVars, taskVars, fb, mode, call, written, lastEvent, order, uiVars>>

\* the listener's promise has settled; nobody awaits it
ListenerReturn(p) ==
  /\ listener[p] # NoListener
  /\ listener[p].stage = "done"
  /\ listener' = [listener EXCEPT ![p] = NoListener]
  /\ Settle(p, "idle", "none", Void, "none")
  /\ calledOnline' = [calledOnline EXCEPT ![p] = FALSE]
  /\ mutation' = [mutation EXCEPT ![p] = Null]
  /\ processedCount' = [processedCount EXCEPT ![p] = 0]
  /\ startQueue' = [startQueue EXCEPT ![p] = <<>>]
  /\ trace' = [trace EXCEPT ![p] = <<>>]
  /\ fetchIdx' = [fetchIdx EXCEPT ![p] = 0]
  /\ fetched' = [fetched EXCEPT ![p] = <<>>]
  /\ storeBefore' = [storeBefore EXCEPT ![p] = <<>>]
  /\ UNCHANGED <<isOnline, queue, store, remoteRows, lq, lastRun, runs, fb, mode, call, written, lastEvent, order, uiVars>>

InitReconnect ==
  /\ InitCommon
  /\ lastEvent = ModuleLoad(isOnline)
  /\ queue = <<>>
  /\ store = NeverSynced
  /\ remoteRows \in SUBSET RemoteRowIds
  /\ mode = "seq"
  /\ active_visit = NoVisit

\* the UI writes queued before the trigger: a client insert and a visit's notes
\* update, with and without key
ReconnectMutations == {m \in Mutations : m.table \in {"clients", "visits"}}
NextReconnect ==
  \/ \E p \in Procs, m \in ReconnectMutations : runs = 0 /\ EnqueueGet(p, m) /\ UNCHANGED handler
  \/ \E p \in Procs : EnqueueSet(p) /\ UNCHANGED <<handler, order>>
  \/ \E p \in Procs : ListenerOnline(p)
  \/ \E p \in Procs : HandleSync(p)
  \/ \E p \in Procs : DequeueGet(p)
  \/ \E p \in Procs : DequeueSet(p)
  \/ \E p \in Procs : ProcessMutation(p) /\ UNCHANGED order
  \/ \E p \in Procs : MarkGet(p)
  \/ \E p \in Procs : MarkSet(p)
  \/ \E p \in Procs : RequeueGet(p)
  \/ \E p \in Procs : RequeueSet(p)
  \/ \E p \in Procs : PurgeGet(p)
  \/ \E p \in Procs : PurgeSet(p)
  \/ \E p \in Procs : ListenerAfterSyncUp(p)
  \/ \E p \in Procs : Fetch(p)
  \/ \E p \in Procs : StoreFetched(p)
  \/ \E p \in Procs : ListenerAfterSyncDown(p)
  \/ \E p \in Procs : ListenerReturn(p)
  \/ OfflineEvent /\ lastEvent' = [type |-> "offline"]

SpecReconnect == InitReconnect /\ [][NextReconnect]_vars

\* ------------------------------------------- offline.ts: offlineStorage
MaxKeys == 2
\* STORAGE_KEYS, lines 133-145: each name maps to the localforage key of that name
STORAGE_KEYS ==
  [clients |-> "clients", products |-> "products", visits |-> "visits", orders |-> "orders",
   order_items |-> "order_items", client_products |-> "client_products",
   rep_tasks |-> "rep_tasks", budgets |-> "budgets", client_followups |-> "client_followups",
   active_visit |-> "active_visit", mutation_queue |-> "mutation_queue"]
\* record sequences handed to a setter: empty, one record, two in either order, a repeat
RecordSeqs == {<<>>, <<"r1">>, <<"r1", "r2">>, <<"r2", "r1">>, <<"r1", "r1">>}
\* visits handed to setActiveVisit; NoVisit is null
VisitArgs == {NoVisit, ActiveVisit("v0", "c0"), ActiveVisit("v1", "c1")}
WasSet(arg) == [set |-> TRUE, arg |-> arg]
\* a behaviour writes at most MaxKeys different storage keys
MayWrite(key) == written[key].set \/ Cardinality({k \in DOMAIN written : written[k].set}) < MaxKeys

\* setData (lines 148-150) through a setter of offlineStorage (lines 171-235)
SetDataCall(p, key, data) ==
  /\ CanStart(p)
  /\ MayWrite(key)
  /\ store' = SetData(store, STORAGE_KEYS[key], data)
  /\ written' = [written EXCEPT ![key] = WasSet(data)]
  /\ call' = [call EXCEPT ![p] = [fn |-> "setData", key |-> key]]
  /\ Settle(p, "store_done", "resolved", Void, "none")
  /\ UNCHANGED <<isOnline, queueVars, calledOnline, fetchIdx, fetched, storeBefore, runs, fb,
                 mode, lastEvent, order, uiVars, listener>>

\* getData (lines 152-155) through a getter of offlineStorage (lines 174-237)
GetDataCall(p, key) ==
  /\ CanStart(p)
  /\ call' = [call EXCEPT ![p] = [fn |-> "getData", key |-> key]]
  /\ Settle(p, "store_done", "resolved", Value(GetData(store, STORAGE_KEYS[key])), "none")
  /\ UNCHANGED <<isOnline, upVars, downVars, fb, mode, written, lastEvent, order, uiVars, listener>>

\* offlineStorage.setActiveVisit, lines 244-246
SetActiveVisitCall(p, visit) ==
  /\ CanStart(p)
  /\ MayWrite("active_visit")
  /\ active_visit' = StorageSetActiveVisit(active_visit, visit)
  /\ written' = [written EXCEPT !["active_visit"] = WasSet(visit)]
  /\ call' = [call EXCEPT ![p] = [fn |-> "setActiveVisit", key |-> "active_visit"]]
  /\ Settle(p, "store_done", "resolved", Void, "none")
  /\ UNCHANGED <<isOnline, upVars, downVars, fb, mode, lastEvent, order, pageVars, handler, listener>>

\* offlineStorage.getActiveVisit, lines 247-249
GetActiveVisitCall(p) ==
  /\ CanStart(p)
  /\ call' = [call EXCEPT ![p] = [fn |-> "getActiveVisit", key |-> "active_visit"]]
  /\ Settle(p, "store_done", "resolved", Value(StorageGetActiveVisit(active_visit)), "none")
  /\ UNCHANGED <<isOnline, upVars, downVars, fb, mode, written, lastEvent, order, uiVars, listener>>

\* the caller has the answer
StoreReturn(p) ==
  /\ pc[p] = "store_done"
  /\ call' = [call EXCEPT ![p] = NoCall]
  /\ Settle(p, "idle", "none", Void, "none")
  /\ UNCHANGED <<isOnline, upVars, downVars, fb, mode, written, lastEvent, order, uiVars, listener>>

InitStore ==
  /\ InitCommon
  /\ lastEvent = NoEvent
  /\ queue = <<>>
  /\ store = NeverSynced
  /\ remoteRows = {}
  /\ mode = "seq"
  /\ active_visit = NoVisit

NextStore ==
  \/ \E p \in Procs, key \in CollectionKeys, data \in RecordSeqs : SetDataCall(p, key, data)
  \/ \E p \in Procs, key \in CollectionKeys : GetDataCall(p, key)
  \/ \E p \in Procs, visit \in VisitArgs : SetActiveVisitCall(p, visit)
  \/ \E p \in Procs : GetActiveVisitCall(p)
  \/ \E p \in Procs : StoreReturn(p)

SpecStore == InitStore /\ [][NextStore]_vars

\* ----------------------------- one session: UI writes, syncUp runs, a syncDown
\* the device has synced down before and a visit is in progress
InitSession ==
  /\ InitCommon
  /\ lastEvent = NoEvent
  /\ queue = <<>>
  /\ store = SyncedBefore
  /\ remoteRows = {}
  /\ mode = "seq"
  /\ active_visit = ActiveVisit("v0", "c0")

\* the UI writes of the visit in progress: its notes update, with and without key
SessionMutations == {m \in Mutations : m.table = "visits"}
NextSession ==
  \/ \E p \in Procs, m \in SessionMutations : EnqueueGet(p, m) /\ UNCHANGED handler
  \/ \E p \in Procs : EnqueueSet(p) /\ UNCHANGED <<handler, order>>
  \/ \E p \in Procs : SyncUpCall(p)
  \/ \E p \in Procs : DequeueGet(p)
  \/ \E p \in Procs : DequeueSet(p)
  \/ \E p \in Procs : ProcessMutation(p) /\ UNCHANGED order
  \/ \E p \in Procs : MarkGet(p)
  \/ \E p \in Procs : MarkSet(p)
  \/ \E p \in Procs : RequeueGet(p)
  \/ \E p \in Procs : RequeueSet(p)
  \/ \E p \in Procs : PurgeGet(p)
  \/ \E p \in Procs : PurgeSet(p)
  \/ \E p \in Procs : SyncUpReturn(p)
  \/ \E p \in Procs : SyncDownCall(p)
  \/ \E p \in Procs : Fetch(p)
  \/ \E p \in Procs : StoreFetched(p)
  \/ OfflineEvent /\ UNCHANGED lastEvent
  \/ OnlineEvent /\ UNCHANGED lastEvent

SpecSession == InitSession /\ [][NextSession]_vars

\* ------------------------- syncUp runs one after another, with their history
\* `order` numbers the entries the UI enqueues in enqueue order (born: id and
\* number of those not yet dispatched) and lists the numbers of those the remote
\* store took at their first dispatch, in the order it received them.
Enqueued(p) ==
  order' = [order EXCEPT !.count = @ + 1, !.born = @ \cup {<<uuidv4, order.count + 1>>}]
Dispatched(p) ==
  LET m == mutation[p]
      e == trace'[p][Len(trace'[p])]
      mine == {b \in order.born : b[1] = m.id}
      took == e.sent /\ pc'[p] = "mark_get"
  IN order' = [order EXCEPT !.born = @ \ mine,
                            !.received = IF took /\ mine # {}
                                           THEN Append(@, (CHOOSE b \in mine : TRUE)[2])
                                           ELSE @]
\* the entries enqueued: one kind is enough, any dispatch of it can fail
FifoMutations == {m \in Mutations : m.table = "visits" /\ m.key # Undefined}

InitFifo ==
  /\ InitCommon
  /\ lastEvent = NoEvent
  /\ queue = <<>>
  /\ store = NeverSynced
  /\ remoteRows = {}
  /\ mode = "seq"
  /\ active_visit = NoVisit

NextFifo ==
  \/ \E p \in Procs, m \in FifoMutations :
       order.count < MaxQueue + 1 /\ EnqueueGet(p, m) /\ UNCHANGED handler
  \/ \E p \in Procs : EnqueueSet(p) /\ Enqueued(p) /\ UNCHANGED handler
  \/ \E p \in Procs : SyncUpCall(p)
  \/ \E p \in Procs : DequeueGet(p)
  \/ \E p \in Procs : DequeueSet(p)
  \/ \E p \in Procs : ProcessMutation(p) /\ Dispatched(p)
  \/ \E p \in Procs : MarkGet(p)
  \/ \E p \in Procs : MarkSet(p)
  \/ \E p \in Procs : RequeueGet(p)
  \/ \E p \in Procs : RequeueSet(p)
  \/ \E p \in Procs : PurgeGet(p)
  \/ \E p \in Procs : PurgeSet(p)
  \/ \E p \in Procs : SyncUpReturn(p)
  \/ OfflineEvent /\ UNCHANGED lastEvent
  \/ OnlineEvent /\ UNCHANGED lastEvent

SpecFifo == InitFifo /\ [][NextFifo]_vars

\* ------------- syncUp runs one after another, with what the remote store saw
\* Here `order` numbers the mutations by content: born holds each enqueued
\* mutation with its enqueue number (a requeued copy has the content, and so the
\* number, of the entry that failed), received lists every dispatch that reached
\* the remote store, with the number and whether the store accepted it.
EnqueuedArg(p) ==
  order' = [order EXCEPT !.count = @ + 1,
                         !.born = @ \cup {<<RequeueArg(mutation[p]), order.count + 1>>}]
NumberOf(m) == (CHOOSE b \in order.born : b[1] = RequeueArg(m))[2]
DispatchedArg(p) ==
  LET e == trace'[p][Len(trace'[p])] IN
  order' = [order EXCEPT !.received =
              IF e.sent THEN Append(@, [n |-> NumberOf(mutation[p]),
                                        accepted |-> pc'[p] = "mark_get"])
                        ELSE @]

InitRetry ==
  /\ InitCommon
  /\ lastEvent = NoEvent
  /\ queue = <<>>
  /\ store = NeverSynced
  /\ remoteRows = {}
  /\ mode = "seq"
  /\ active_visit = NoVisit

\* each mutation is enqueued once, so its content names it; the history is
\* followed up to MaxQueue + 1 dispatches
NextRetry ==
  \/ \E p \in Procs, m \in ReconnectMutations :
       /\ \A b \in order.born : b[1] # m
       /\ EnqueueGet(p, m) /\ UNCHANGED handler
  \/ \E p \in Procs : EnqueueSet(p) /\ EnqueuedArg(p) /\ UNCHANGED handler
  \/ \E p \in Procs : SyncUpCall(p)
  \/ \E p \in Procs : DequeueGet(p)
  \/ \E p \in Procs : DequeueSet(p)
  \/ \E p \in Procs :
       Len(order.received) < MaxQueue + 1 /\ ProcessMutation(p) /\ DispatchedArg(p)
  \/ \E p \in Procs : MarkGet(p)
  \/ \E p \in Procs : MarkSet(p)
  \/ \E p \in Procs : RequeueGet(p)
  \/ \E p \in Procs : RequeueSet(p)
  \/ \E p \in Procs : PurgeGet(p)
  \/ \E p \in Procs : PurgeSet(p)
  \/ \E p \in Procs : SyncUpReturn(p)
  \/ OfflineEvent /\ UNCHANGED lastEvent
  \/ OnlineEvent /\ UNCHANGED lastEvent

SpecRetry == InitRetry /\ [][NextRetry]_vars

\* --------------------------- syncUp called again and again on a given queue
\* nothing is enqueued by the UI; the queue is what it built up before
InitDrain ==
  /\ InitCommon
  /\ lastEvent = NoEvent
  /\ queue \in QueuedBefore
  /\ store = NeverSynced
  /\ remoteRows = {}
  /\ mode = "seq"
  /\ active_visit = NoVisit

\* a step of a syncUp run: an awaited store or remote call has answered
RunStep ==
  \/ \E p \in Procs : DequeueGet(p)
  \/ \E p \in Procs : DequeueSet(p)
  \/ \E p \in Procs : ProcessMutation(p) /\ UNCHANGED order
  \/ \E p \in Procs : MarkGet(p)
  \/ \E p \in Procs : MarkSet(p)
  \/ \E p \in Procs : RequeueGet(p)
  \/ \E p \in Procs : RequeueSet(p)
  \/ \E p \in Procs : PurgeGet(p)
  \/ \E p \in Procs : PurgeSet(p)
\* a trigger (the sync button, the 'online' listener) calls syncUp, or sees it settle
TriggerStep ==
  \/ \E p \in Procs : SyncUpCall(p)
  \/ \E p \in Procs : SyncUpReturn(p)

NextDrain ==
  \/ RunStep
  \/ TriggerStep
  \/ OfflineEvent /\ UNCHANGED lastEvent
  \/ OnlineEvent /\ UNCHANGED lastEvent

\* every awaited call answers in the end, and syncUp is called again and again;
\* connectivity events may or may not come
SpecDrain ==
  InitDrain /\ [][NextDrain]_vars /\ WF_vars(RunStep) /\ WF_vars(TriggerStep)

\* ======================================================= properties
InSyncUp(p) ==
  pc[p] \in {"dequeue_get", "dequeue_set", "process", "mark_get", "mark_set",
             "requeue_get", "requeue_set", "purge_get", "purge_set", "up_done"}
InSyncDown(p) == pc[p] \in {"fetch", "set_data", "down_done"}
Items(p) == [i \in 1..Len(trace[p]) |-> trace[p][i].m]
Answers(p) == [i \in 1..Len(trace[p]) |-> trace[p][i].answer]
\* a processMutation call that failed: thrown before the remote call, or a remote
\* error other than an insert's duplicate key
Failed(e) ==
  \/ ~e.sent
  \/ e.answer = "error"
  \/ e.answer = "23505" /\ e.m.operation # "insert"
Accepted(e) == e.sent /\ e.answer = "ok"

\* C1: within one syncUp run the entries handed to processMutation (and so the
\* remote writes) are a prefix of the queue as it stood at the call, in queue
\* order; only the last one can have failed; a resolved run dispatched the whole
\* queue and a rejected online run stopped at its first failing entry.
C1_FifoDispatch ==
  \A p \in Procs : InSyncUp(p) =>
    /\ IsPrefix(Items(p), startQueue[p])
    /\ \A i \in 1..(Len(trace[p]) - 1) : ~Failed(trace[p][i])
    /\ (pc[p] = "up_done" /\ result[p] = "resolved") => Items(p) = startQueue[p]
    /\ (pc[p] = "up_done" /\ result[p] = "rejected" /\ calledOnline[p]) =>
         (trace[p] # <<>> /\ Failed(trace[p][Len(trace[p])]))
C1_Witness ==
  \E p \in Procs :
    /\ pc[p] = "up_done" /\ result[p] = "resolved"
    /\ Len(trace[p]) >= 2
    /\ trace[p][1].m.operation # trace[p][2].m.operation

\* C2: when an online syncUp run on queue q fails first at q[i], it rejects, and
\* the queue is then q[i+1..] in order followed by one fresh copy of q[i] (same
\* table, operation, payload, key; synced = false; another id); q[1..i-1] are gone.
C2_FailureRequeue ==
  \A p \in Procs :
    /\ (InSyncUp(p) /\ \E i \in 1..Len(trace[p]) : Failed(trace[p][i])) =>
         \/ pc[p] \in {"requeue_get", "requeue_set"}
         \/ pc[p] = "up_done" /\ result[p] = "rejected"
    /\ (pc[p] = "up_done" /\ result[p] = "rejected" /\ calledOnline[p]) =>
         LET q == startQueue[p]
             i == Len(trace[p])
             n == Len(queue)
         IN /\ 1 <= i /\ i <= Len(q)
            /\ trace[p][i].m = q[i]
            /\ n = Len(q) - i + 1
            /\ SubSeq(queue, 1, n - 1) = SubSeq(q, i + 1, Len(q))
            /\ RequeueArg(queue[n]) = RequeueArg(q[i])
            /\ queue[n].synced = FALSE
            /\ queue[n].id # q[i].id
            /\ \A j \in 1..i : q[j].id \notin IdsIn(queue)
C2_Witness ==
  \E p \in Procs :
    /\ pc[p] = "up_done" /\ result[p] = "rejected" /\ calledOnline[p]
    /\ Len(startQueue[p]) = 2 /\ Len(trace[p]) = 1
    /\ Len(queue) = 2 /\ queue[1] = startQueue[p][2]

\* C3: a syncUp run called online in which the remote store accepted every
\* mutation never enters the failure path, and when it has settled it has
\* resolved and the queue is empty.
C3_AllAcceptedDrains ==
  \A p \in Procs :
    (InSyncUp(p) /\ calledOnline[p] /\ \A i \in 1..Len(trace[p]) : Accepted(trace[p][i])) =>
      /\ pc[p] \notin {"requeue_get", "requeue_set"}
      /\ pc[p] = "up_done" => (result[p] = "resolved" /\ queue = <<>>)
C3_Witness ==
  \E p \in Procs :
    /\ pc[p] = "up_done" /\ calledOnline[p] /\ result[p] = "resolved"
    /\ Len(trace[p]) = 2 /\ \A i \in 1..Len(trace[p]) : Accepted(trace[p][i])
    /\ queue = <<>>

\* C4 as stated: a resolved syncUp returns the number of mutations it processed.
C4_ReturnsCount ==
  \A p \in Procs :
    (pc[p] = "up_done" /\ result[p] = "resolved") => retval[p] = Number(Len(trace[p]))
\* C4 as amended: a resolved syncUp returns no value; the number of mutations it
\* processed (all n entries of the queue it was called on) is in its local
\* processedCount, which is only logged.
C4_CountOnlyLogged ==
  \A p \in Procs :
    (pc[p] = "up_done" /\ result[p] = "resolved") =>
      /\ retval[p] = Void
      /\ processedCount[p] = Len(trace[p])
      /\ processedCount[p] = Len(startQueue[p])
C4_Witness ==
  \E p \in Procs :
    /\ pc[p] = "up_done" /\ result[p] = "resolved"
    /\ Len(startQueue[p]) = 1 /\ startQueue[p][1].operation = "insert"
    /\ Accepted(trace[p][1])
    /\ processedCount[p] = 1

\* C5: an online syncUp run on a queue of one insert that the remote answers
\* with 23505 resolves and leaves the queue empty, and an online run right
\* after it resolves too, dispatches nothing and leaves the queue empty.
DuplicateInsertRun(start, answers) ==
  /\ Len(start) = 1
  /\ start[1].operation = "insert"
  /\ answers = <<"23505">>
C5_InsertIdempotence ==
  \A p \in Procs : (pc[p] = "up_done" /\ calledOnline[p]) =>
    /\ DuplicateInsertRun(startQueue[p], Answers(p)) =>
         (result[p] = "resolved" /\ queue = <<>>)
    /\ (lastRun # NoRun /\ DuplicateInsertRun(lastRun.start, lastRun.answers)) =>
         /\ lastRun.result = "resolved" /\ lastRun.end = <<>>
         /\ result[p] = "resolved" /\ queue = <<>> /\ trace[p] = <<>>
C5_Witness ==
  \E p \in Procs :
    /\ pc[p] = "up_done" /\ calledOnline[p] /\ result[p] = "resolved"
    /\ lastRun # NoRun /\ DuplicateInsertRun(lastRun.start, lastRun.answers)
    /\ lastRun.start[1].payload \in remoteRows
    /\ queue = <<>>

\* C6: a syncUp called while offline has rejected at once: nothing was
\* dequeued, no processMutation call (so no remote write) was made, and the
\* queue is the queue of the call.
C6_OfflineSyncUp ==
  \A p \in Procs : (InSyncUp(p) /\ ~calledOnline[p]) =>
    /\ pc[p] = "up_done" /\ result[p] = "rejected" /\ error[p] = "offline"
    /\ queue = startQueue[p]
    /\ trace[p] = <<>>
    /\ mutation[p] = Null
C6_Witness ==
  \E p \in Procs :
    /\ pc[p] = "up_done" /\ ~calledOnline[p] /\ result[p] = "rejected"
    /\ Len(queue) = 2 /\ queue = startQueue[p]

\* C7: a syncDown called while offline has rejected at once: no fetch was made
\* and every cached collection is as it was at the call.
C7_OfflineSyncDown ==
  \A p \in Procs : (InSyncDown(p) /\ ~calledOnline[p]) =>
    /\ pc[p] = "down_done" /\ result[p] = "rejected" /\ error[p] = "offline"
    /\ fetched[p] = <<>> /\ fetchIdx[p] = 0
    /\ store = storeBefore[p]
C7_Witness ==
  \E p \in Procs :
    /\ pc[p] = "down_done" /\ ~calledOnline[p] /\ result[p] = "rejected"
    /\ store = SyncedBefore

\* C8: after a resolved syncDown each of the six fetched collections holds
\* exactly the rows its fetch returned in this run: getData gives those rows,
\* none of the rows cached before, and an empty array for an empty fetch.
SixCollections ==
  <<"clients", "products", "client_products", "budgets", "rep_tasks", "client_followups">>
C8_CollectionsReplaced ==
  \A p \in Procs : (pc[p] = "down_done" /\ result[p] = "resolved") =>
    /\ Len(fetched[p]) = 6
    /\ \A k \in 1..6 :
         /\ store[SixCollections[k]].stored
         /\ GetData(store, SixCollections[k]) = fetched[p][k]
         /\ \A r \in Range(GetData(store, SixCollections[k])) :
              r[1] = SixCollections[k] /\ r[2] = "new"
C8_Witness ==
  \E p \in Procs :
    /\ pc[p] = "down_done" /\ result[p] = "resolved"
    /\ storeBefore[p] = SyncedBefore
    /\ fetched[p][1] # <<>> /\ fetched[p][2] = <<>>
    /\ GetData(store, "products") = <<>>

\* C9: syncDown fetches clients, products, client_products, budgets, rep_tasks,
\* client_followups in that order and writes each result before the next fetch;
\* when the k-th fetch fails it rejects with that error, the collections of
\* fetches 1..k-1 hold the new rows and all others are as they were at the call.
WrittenUpTo(p, k) ==
  /\ \A j \in 1..6 :
       IF j <= k THEN store[SixCollections[j]] = Stored(fetched[p][j])
                 ELSE store[SixCollections[j]] = storeBefore[p][SixCollections[j]]
  /\ \A c \in CollectionKeys \ Range(SixCollections) : store[c] = storeBefore[p][c]
C9_FetchOrderNoRollback ==
  \A p \in Procs : (InSyncDown(p) /\ calledOnline[p]) =>
    /\ \A j \in 1..Len(fetched[p]) : \A r \in Range(fetched[p][j]) : r[1] = SixCollections[j]
    /\ pc[p] = "fetch" => (Len(fetched[p]) = fetchIdx[p] - 1 /\ WrittenUpTo(p, fetchIdx[p] - 1))
    /\ pc[p] = "set_data" => (Len(fetched[p]) = fetchIdx[p] /\ WrittenUpTo(p, fetchIdx[p] - 1))
    /\ (pc[p] = "down_done" /\ result[p] = "rejected") =>
         /\ error[p] = "error"
         /\ Len(fetched[p]) = fetchIdx[p] - 1
         /\ WrittenUpTo(p, fetchIdx[p] - 1)
    /\ (pc[p] = "down_done" /\ result[p] = "resolved") => WrittenUpTo(p, 6)
C9_Witness ==
  \E p \in Procs :
    /\ pc[p] = "down_done" /\ result[p] = "rejected" /\ calledOnline[p]
    /\ fetchIdx[p] = 3
    /\ storeBefore[p] = SyncedBefore
    /\ store["products"] = Stored(fetched[p][2])
    /\ store["client_products"] = SyncedBefore["client_products"]

\* C10: withOfflineFallback never rejects: whatever the connectivity and the
\* outcomes of the two operations, its promise resolves, with the remote
\* result, the local result or fallbackValue.
C10_FallbackNeverRejects ==
  \A p \in Procs :
    /\ pc[p] \in {"fb_remote", "fb_local", "fb_done"} => result[p] # "rejected"
    /\ pc[p] = "fb_done" =>
         /\ result[p] = "resolved"
         /\ \/ ~fb[p].remote.throws /\ retval[p] = Value(fb[p].remote.value)
            \/ ~fb[p].local.throws /\ retval[p] = Value(fb[p].local.value)
            \/ retval[p] = Value(fb[p].fallback)
C10_Witness ==
  \E p \in Procs :
    /\ pc[p] = "fb_done" /\ calledOnline[p]
    /\ fb[p].remote.throws /\ fb[p].local.throws
    /\ result[p] = "resolved" /\ retval[p] = Value(fb[p].fallback)

\* C11: a withOfflineFallback call made while offline never invokes the remote
\* operation; it invokes the local operation once and resolves with its result,
\* or with fallbackValue when the local operation fails.
InFallback(p) == pc[p] \in {"fb_remote", "fb_local", "fb_done"}
C11_OfflineSkipsRemote ==
  \A p \in Procs : (InFallback(p) /\ ~calledOnline[p]) =>
    /\ pc[p] # "fb_remote"
    /\ \A i \in 1..Len(fb[p].calls) : fb[p].calls[i] # "remote"
    /\ pc[p] = "fb_local" => fb[p].calls = <<>>
    /\ pc[p] = "fb_done" =>
         /\ fb[p].calls = <<"local">>
         /\ result[p] = "resolved"
         /\ retval[p] = (IF fb[p].local.throws THEN Value(fb[p].fallback)
                                               ELSE Value(fb[p].local.value))
C11_Witness ==
  \E p \in Procs :
    /\ pc[p] = "fb_done" /\ ~calledOnline[p]
    /\ ~fb[p].remote.throws /\ fb[p].local.throws
    /\ fb[p].remote.value # fb[p].fallback
    /\ retval[p] = Value(fb[p].fallback)

\* C12: a withOfflineFallback call made while online invokes the remote
\* operation first; if it succeeds its result is returned and the local
\* operation is not invoked; if it fails the local operation is invoked once
\* and its result returned, or fallbackValue when that fails too.
C12_OnlineRemoteFirst ==
  \A p \in Procs : (InFallback(p) /\ calledOnline[p]) =>
    /\ pc[p] = "fb_remote" => fb[p].calls = <<>>
    /\ pc[p] = "fb_local" => (fb[p].calls = <<"remote">> /\ fb[p].remote.throws)
    /\ pc[p] = "fb_done" =>
         /\ result[p] = "resolved"
         /\ IF ~fb[p].remote.throws
              THEN fb[p].calls = <<"remote">> /\ retval[p] = Value(fb[p].remote.value)
              ELSE /\ fb[p].calls = <<"remote", "local">>
                   /\ retval[p] = (IF fb[p].local.throws THEN Value(fb[p].fallback)
                                                         ELSE Value(fb[p].local.value))
C12_Witness ==
  \E p \in Procs :
    /\ pc[p] = "fb_done" /\ calledOnline[p]
    /\ fb[p].remote.throws /\ ~fb[p].local.throws
    /\ fb[p].local.value # fb[p].fallback
    /\ fb[p].calls = <<"remote", "local">>
    /\ retval[p] = Value(fb[p].local.value)

\* C13 as stated: whenever handleStartVisit is invoked while the persisted
\* active visit marker holds a record, it is refused: it issues no remote
\* insert, adds nothing to the queue and leaves the marker as it was.
C13_StartRefusedWhileActive ==
  (handler # NoHandler /\ handler.name = "handleStartVisit" /\ handler.marker # NoVisit) =>
    /\ handler.stage = "done" /\ handler.outcome = "refused"
    /\ handler.remote = <<>>
    /\ queue = handler.queue
    /\ pc = [p \in Procs |-> "idle"]
    /\ active_visit = handler.marker

\* C14 as stated: when a handler has started two enqueueMutation calls at once
\* (Promise.all, offline) and both have completed, the queue holds everything
\* it held when they were started followed by both new entries.
C14_BothEnqueued ==
  (/\ handler # NoHandler
   /\ ~handler.online
   /\ Len(Writes(handler.name)) = 2
   /\ handler.stage \in {"set_active_visit", "finish", "done"}) =>
    /\ IsPrefix(handler.queue, queue)
    /\ Len(queue) = Len(handler.queue) + 2
    /\ {RequeueArg(queue[i]) : i \in (Len(handler.queue) + 1)..Len(queue)}
         = Range(Writes(handler.name))

\* C19 as stated: a UI write handler takes one of two paths, chosen by
\* isNetworkOnline() when it is invoked. Online it issues its remote writes and
\* the queue stays as it was; offline it issues no remote write and, once its
\* writes are done, the queue has grown by exactly one entry per intended
\* remote write, every update entry carrying a key.
WritesDone == handler.stage \in {"set_active_visit", "finish"} \/ handler.outcome = "ok"
C19_OneOfTwoPaths ==
  (handler # NoHandler /\ handler.outcome # "refused") =>
    LET w == Writes(handler.name)
        n == Len(handler.queue)
    IN IF handler.online
         THEN /\ handler.stage # "enqueue"
              /\ queue = handler.queue
              /\ pc = [p \in Procs |-> "idle"]
              /\ handler.stage # "remote" => handler.remote = w
         ELSE /\ handler.stage # "remote"
              /\ handler.remote = <<>>
              /\ WritesDone =>
                   /\ IsPrefix(handler.queue, queue)
                   /\ Len(queue) = n + Len(w)
                   /\ \A i \in 1..Len(w) :
                        \E j \in (n + 1)..Len(queue) : RequeueArg(queue[j]) = w[i]
                   /\ \A j \in 1..Len(queue) :
                        queue[j].operation = "update" => queue[j].key # Undefined

\* C15 as stated: when two syncUp runs overlap they dequeue different entries:
\* no queue entry is sent to the remote store by both runs.
C15_NoDoubleDispatch ==
  \A i \in 1..Len(trace["p1"]), j \in 1..Len(trace["p2"]) :
    (trace["p1"][i].sent /\ trace["p2"][j].sent) => trace["p1"][i].m.id # trace["p2"][j].m.id

\* C16 as stated: when two syncUp runs have settled, every mutation that was in
\* the queue when either run was called has been accepted by the remote store
\* or is in the queue, as itself or as a requeued copy.
AcceptedIn(p, e) ==
  \E i \in 1..Len(trace[p]) :
    trace[p][i].m.id = e.id /\ trace[p][i].sent /\ ReturnsNormally(e, trace[p][i].answer)
KeptInQueue(e) ==
  \E j \in 1..Len(queue) : queue[j].id = e.id \/ RequeueArg(queue[j]) = RequeueArg(e)
C16_NoEntryDropped ==
  (\A p \in Procs : pc[p] = "up_done") =>
    \A p \in Procs : \A e \in Range(startQueue[p]) :
      \/ \E o \in Procs : AcceptedIn(o, e)
      \/ KeptInQueue(e)

ListenerCatches(p) ==
  /\ listener[p] # NoListener /\ listener[p].stage # "done"
  /\ listener'[p] # NoListener /\ listener'[p].stage = "done"
C20_MarkedUntilPurge ==
  \A p \in Procs :
    (InSyncUp(p) /\ pc[p] # "up_done") =>
      \A i \in 1..processedCount[p] :
        \E j \in 1..Len(queue) : queue[j].id = trace[p][i].m.id /\ queue[j].synced

\* C21 as stated: when handleEndVisit, invoked online, has completed, the
\* active visit marker is deleted and the visit-start route '/visit' is shown.
C21_EndVisitClearsAndReturns ==
  (/\ handler # NoHandler
   /\ handler.name = "handleEndVisit"
   /\ handler.online
   /\ handler.outcome = "ok") =>
    (active_visit = NoVisit /\ page = "start")

\* C22: an update or delete entry without a key that syncUp hands to
\* processMutation fails there with no remote operation issued for it; the run
\* then goes through the failure path only, and when it has settled it has
\* rejected and the queue's tail is a fresh copy of the entry, still without key.
Keyless(m) == m.operation \in {"update", "delete"} /\ m.key = Undefined
C22_KeylessFailsBeforeRemote ==
  \A p \in Procs : InSyncUp(p) =>
    /\ \A i \in 1..Len(trace[p]) :
         Keyless(trace[p][i].m) => (~trace[p][i].sent /\ i = Len(trace[p]))
    /\ (trace[p] # <<>> /\ Keyless(trace[p][Len(trace[p])].m)) =>
         LET m == trace[p][Len(trace[p])].m IN
         /\ pc[p] \in {"requeue_get", "requeue_set", "up_done"}
         /\ pc[p] = "up_done" =>
              /\ result[p] = "rejected"
              /\ queue # <<>>
              /\ RequeueArg(queue[Len(queue)]) = RequeueArg(m)
              /\ queue[Len(queue)].key = Undefined
              /\ queue[Len(queue)].synced = FALSE
              /\ queue[Len(queue)].id # m.id
C22_Witness ==
  \E p \in Procs :
    /\ pc[p] = "up_done" /\ result[p] = "rejected"
    /\ Len(startQueue[p]) = 2 /\ Len(trace[p]) = 2
    /\ trace[p][2].m.operation = "delete" /\ trace[p][2].m.key = Undefined
    /\ ~trace[p][2].sent
    /\ Len(queue) = 1 /\ queue[1].operation = "delete" /\ queue[1].key = Undefined

\* C27: the duplicate-key downgrade applies to inserts only. An update, upsert
\* or delete that the remote store rejects with any error, 23505 included, and an
\* insert rejected with another error, send the run through the failure path:
\* it never marks the entry, and when it has settled it has rejected and the
\* queue's tail is a fresh copy of the entry. An insert answered with 23505 is
\* not a failure.
RemoteRejected(e) == e.sent /\ e.answer # "ok"
Downgraded(e) == e.sent /\ e.m.operation = "insert" /\ e.answer = "23505"
C27_DowngradeInsertsOnly ==
  \A p \in Procs : (InSyncUp(p) /\ trace[p] # <<>>) =>
    LET e == trace[p][Len(trace[p])] IN
    /\ (RemoteRejected(e) /\ ~Downgraded(e)) =>
         /\ pc[p] \in {"requeue_get", "requeue_set", "up_done"}
         /\ pc[p] = "up_done" =>
              /\ result[p] = "rejected"
              /\ queue # <<>>
              /\ RequeueArg(queue[Len(queue)]) = RequeueArg(e.m)
              /\ queue[Len(queue)].id # e.m.id
    /\ Downgraded(e) => pc[p] \notin {"requeue_get", "requeue_set"}
    /\ (Downgraded(e) /\ pc[p] = "up_done") => result[p] = "resolved"
C27_Witness ==
  \E p \in Procs :
    /\ pc[p] = "up_done" /\ result[p] = "rejected"
    /\ Len(trace[p]) = 2
    /\ trace[p][1].m.operation = "insert" /\ trace[p][1].answer = "23505"
    /\ trace[p][2].m.operation = "upsert" /\ trace[p][2].answer = "23505"
    /\ Len(queue) = 1 /\ queue[1].operation = "upsert"

\* C24: a getData(name) answers exactly the sequence handed to the last
\* setData(name, X), same records in the same order, and the empty sequence
\* when the collection was never set.
C24_StoreRoundTrip ==
  \A p \in Procs : (pc[p] = "store_done" /\ call[p].fn = "getData") =>
    retval[p] = Value(IF written[call[p].key].set THEN written[call[p].key].arg ELSE <<>>)
C24_Witness ==
  \E p \in Procs :
    /\ pc[p] = "store_done" /\ call[p].fn = "getData" /\ call[p].key = "order_items"
    /\ written["visits"].set
    /\ retval[p] = Value(<<"r2", "r1">>)

\* C25: the store holds one active-visit item at most. After setActiveVisit(v)
\* the item is v, after setActiveVisit(null) there is none; getActiveVisit()
\* answers the visit last set, and null after setActiveVisit(null) or when
\* none was ever set.
C25_OneActiveVisit ==
  \A p \in Procs :
    /\ (pc[p] = "store_done" /\ call[p].fn = "setActiveVisit") =>
         active_visit = written["active_visit"].arg
    /\ (pc[p] = "store_done" /\ call[p].fn = "getActiveVisit") =>
         retval[p] = Value(IF written["active_visit"].set THEN written["active_visit"].arg
                                                          ELSE NoVisit)
C25_Witness ==
  \E p \in Procs :
    /\ pc[p] = "store_done" /\ call[p].fn = "getActiveVisit"
    /\ written["active_visit"] = WasSet(NoVisit)
    /\ retval[p] = Value(NoVisit)
    /\ written["clients"].set

\* C26 as stated: after a resolved syncDown every cached collection, visits,
\* orders and order_items included, has been written by that run and holds rows
\* of the run's remote snapshot only.
C26_EveryCollectionReplaced ==
  \A p \in Procs : (pc[p] = "down_done" /\ result[p] = "resolved") =>
    \A k \in CollectionKeys :
      /\ store[k].stored
      /\ \A r \in Range(GetData(store, k)) : r[1] = k /\ r[2] = "new"

\* C28: isNetworkOnline() answers the last-known connectivity: what
\* navigator.onLine was when the module was loaded until an event arrives, false
\* after an 'offline' event, true after an 'online' event; no step of syncUp or
\* syncDown, succeeding or failing, changes the answer.
LastKnown ==
  CASE lastEvent.type = "load" -> lastEvent.onLine
    [] lastEvent.type = "offline" -> FALSE
    [] lastEvent.type = "online" -> TRUE
C28_LastKnownConnectivity == isNetworkOnline = LastKnown
C28_Witness ==
  \E p \in Procs :
    /\ listener[p] # NoListener /\ listener[p].stage = "done"
    /\ listener[p].up = "rejected"
    /\ lastEvent.type = "online" /\ isNetworkOnline

\* C30: in both triggers, the 'online' listener and SyncButton's handleSync,
\* syncDown is only ever in progress after the trigger's syncUp has resolved;
\* after a rejected syncUp the trigger is over with no syncDown called, no
\* fetch made and no cached collection written.
C30_SyncDownOnlyAfterSyncUp ==
  \A p \in Procs :
    /\ InSyncDown(p) =>
         (listener[p] # NoListener /\ listener[p].up = "resolved")
    /\ (listener[p] # NoListener /\ listener[p].up = "rejected") =>
         /\ listener[p].stage = "done"
         /\ runs = 0 /\ fetchIdx[p] = 0 /\ fetched[p] = <<>>
         /\ store = NeverSynced
C30_Witness ==
  \E p \in Procs :
    /\ listener[p] # NoListener /\ listener[p].trigger = "button"
    /\ listener[p].stage = "done" /\ listener[p].up = "rejected"
    /\ Len(startQueue[p]) = 2 /\ Len(trace[p]) = 2

\* C29: a step of enqueueMutation or of syncUp, whether the run resolves or
\* rejects, leaves every cached collection and the active visit marker as they
\* were; a step of syncDown, whether the run resolves or rejects, leaves the
\* mutation queue and the active visit marker as they were.
QueueLabels ==
  {"enqueue_set", "dequeue_get", "dequeue_set", "process", "mark_get", "mark_set",
   "requeue_get", "requeue_set", "purge_get", "purge_set", "up_done"}
DownLabels == {"fetch", "set_data", "down_done"}
StepIn(p, labels) == pc'[p] # pc[p] /\ (pc[p] \in labels \/ pc'[p] \in labels)
C29_QueueAndCacheIndependent ==
  [][\A p \in Procs :
       /\ StepIn(p, QueueLabels) => (store' = store /\ active_visit' = active_visit)
       /\ StepIn(p, DownLabels) => (queue' = queue /\ active_visit' = active_visit)]_vars
C29_Witness ==
  \E p \in Procs :
    /\ pc[p] = "down_done" /\ result[p] = "resolved"
    /\ store # SyncedBefore
    /\ Len(queue) = 2 /\ queue[1].key = "v1" /\ queue[2].key = Undefined
    /\ active_visit = ActiveVisit("v0", "c0")

\* C23: over syncUp runs that do not overlap, the entries that never fail reach
\* the remote store in the order they were enqueued, whatever entries fail and
\* are requeued between them: the enqueue numbers of the entries the remote
\* store took at their first dispatch are received in increasing order.
C23_NeverFailedKeepOrder ==
  \A i, j \in 1..Len(order.received) :
    i < j => order.received[i] < order.received[j]
C23_Witness ==
  /\ order.count = 3
  /\ order.received = <<1, 3>>
  /\ order.born = {}
  /\ \E p \in Procs : pc[p] = "up_done" /\ result[p] = "resolved"

\* C35: when store operations do not interleave, every entry of the persisted
\* queue has synced = false in every state, so getPendingMutationsCount() is the
\* queue's length; the writes of markMutationSynced and removeSyncedMutations
\* in a syncUp run leave the queue as it was.
C35_NothingEverMarked ==
  /\ [](/\ \A i \in 1..Len(queue) : ~queue[i].synced
        /\ PendingMutationsCount = Len(queue))
  /\ [][\A p \in Procs :
          (pc[p] \in {"mark_set", "purge_set"} /\ pc'[p] # pc[p]) => queue' = queue]_vars
C35_Witness ==
  \E p \in Procs :
    /\ pc[p] = "dequeue_get" /\ processedCount[p] = 1
    /\ Len(startQueue[p]) = 2
    /\ Len(queue) = 1 /\ ~queue[1].synced /\ PendingMutationsCount = 1

\* C33: there is no retry limit and no dead-letter path. A syncUp run called on
\* a queue that holds an entry whose processing always fails (an update or
\* delete without key) keeps that entry, or a requeued copy of it, in the queue
\* or in its own hands at every step; when the run has settled it has
\* rejected and the queue holds the entry or its copy, so it is not empty.
HoldsKeyless(q) == \E i \in 1..Len(q) : Keyless(q[i])
PastWrites(h) ==
  /\ handler # NoHandler /\ handler.name = h
  /\ handler.stage \in {"set_active_visit", "finish"} \/ handler.outcome = "ok"
\* every write of the handler is in the queue, behind what was queued at the call
AllQueued(h) ==
  /\ Len(queue) = Len(handler.queue) + Len(Writes(h))
  /\ \A i \in 1..Len(Writes(h)) :
       \E j \in (Len(handler.queue) + 1)..Len(queue) : RequeueArg(queue[j]) = Writes(h)[i]
AllAcceptedByRemote(h) ==
  /\ handler.remote = Writes(h)
  /\ \A i \in 1..Len(Writes(h)) : handler.answers[i] = "ok"

\* C34 as stated: handleEndVisit gets to clearing the active visit marker only
\* when both of its writes were accepted by the remote store (online) or are
\* both in the mutation queue (offline); after a rejected write the marker is
\* as it was.
C34_EndVisitClearsAfterWrites ==
  PastWrites("handleEndVisit") =>
    IF handler.online THEN AllAcceptedByRemote("handleEndVisit")
                      ELSE AllQueued("handleEndVisit")

C31_DependentOrderKept ==
  \A i \in 1..Len(order.received) :
    \A a \in 1..(order.received[i].n - 1) :
      \E j \in 1..(i - 1) : order.received[j].n = a /\ order.received[j].accepted

\* C32: with runs one after another and nothing enqueued by the UI, an entry
\* that always fails does not starve the others: if from some time on the
\* device is online and the remote store rejects nothing it is sent, then from
\* some time on the queue holds nothing but entries that fail before the remote
\* call (updates and deletes without key); every other entry has been
\* dispatched and is gone.
RemoteAccepts == \A p \in Procs : \A i \in 1..Len(trace[p]) : trace[p][i].sent => ~Failed(trace[p][i])
OnlyKeyless == \A i \in 1..Len(queue) : Keyless(queue[i])
C32_NoStarvation == <>[](isOnline /\ RemoteAccepts) => <>[]OnlyKeyless
C32_Witness ==
  \E p \in Procs :
    /\ pc[p] = "up_done" /\ result[p] = "rejected" /\ calledOnline[p]
    /\ Len(startQueue[p]) = 2
    /\ ~Keyless(startQueue[p][1]) /\ Keyless(startQueue[p][2]) /\ startQueue[p][2].id > 2
    /\ Len(trace[p]) = 2 /\ Accepted(trace[p][1])
    /\ Len(queue) = 1 /\ OnlyKeyless

\* C37: a syncUp run that no other task enqueues into terminates: called on a
\* queue of n entries it makes at most n dispatches (so at most n remote
\* calls), it settles, and then it has resolved with the queue empty or has
\* rejected, offline at once or at the first entry that failed.
C37_RunTerminates ==
  /\ [](\A p \in Procs : InSyncUp(p) =>
          /\ Len(trace[p]) <= Len(startQueue[p])
          /\ pc[p] = "up_done" =>
               \/ result[p] = "resolved" /\ queue = <<>>
               \/ result[p] = "rejected" /\ ~calledOnline[p] /\ trace[p] = <<>>
               \/ /\ result[p] = "rejected" /\ trace[p] # <<>>
                  /\ Failed(trace[p][Len(trace[p])])
                  /\ \A i \in 1..(Len(trace[p]) - 1) : ~Failed(trace[p][i]))
  /\ \A p \in Procs : (pc[p] = "dequeue_get") ~> (pc[p] = "up_done")
C37_Witness ==
  \E p \in Procs :
    /\ pc[p] = "up_done" /\ result[p] = "rejected" /\ calledOnline[p]
    /\ Len(startQueue[p]) = 2 /\ Len(trace[p]) = 2
    /\ trace[p][2].sent /\ trace[p][2].answer = "error"
    /\ Len(queue) = 1

====
